---- MODULE Spec2Model ----
(***************************************************************************)
(* Partner-Allocation: the booking workflow (assign / review / confirm)    *)
(* behind the Redis lock of lib/lock.ts, and the GPS ingestion behind the  *)
(* sliding-window rate limiter of lib/rateLimit.ts.                        *)
(*                                                                         *)
(* Every "await" of a handler is one step of the model: between two awaits *)
(* any other request may run.  A lock key may reach the end of its lease   *)
(* while its holder is still inside the wrapped operation, and, depending  *)
(* on the deployment, a Redis command may fail.                            *)
(***************************************************************************)
EXTENDS Integers, Sequences, FiniteSets, TLC

(***************************************************************************)
(* The fixture: two bookings of one city that lie close to each other, two *)
(* partners of that city.  Coordinates are [lon, lat] in millidegrees; all *)
(* points of the fixture share one meridian.                               *)
(***************************************************************************)
Bookings == {"b1", "b2"}
Partners == {"p1", "p2"}
Admins == {"admin_001", "admin_002"}
DocTypes == {"selfie", "signature"}
NoId == "none"

\* a field the body lacks
Missing == ""

\* what a caller may send: the ids of the bookings, a well-formed id of no booking,
\* a string that is no ObjectId, no id; the document types of the bookings and one
\* they lack
BookingIds == Bookings \cup {"bX", "not-an-id", Missing}
IsValidObjectId(id) == id # "not-an-id"

\* the bodies of review requests: every decision on every document of every
\* booking, with a reason when rejecting; and one body for each way to be refused
ReviewBodies ==
  {[b |-> b, d |-> d, st |-> st, reason |-> (st = "rejected")] :
     b \in Bookings, d \in DocTypes, st \in {"pending", "approved", "rejected"}}
  \cup {[b |-> "bX", d |-> "selfie", st |-> "approved", reason |-> FALSE],
        [b |-> "b1", d |-> "address_proof", st |-> "approved", reason |-> FALSE],
        [b |-> "b1", d |-> "selfie", st |-> "bogus", reason |-> FALSE],
        [b |-> "b1", d |-> "selfie", st |-> "rejected", reason |-> FALSE],
        [b |-> "not-an-id", d |-> "selfie", st |-> "approved", reason |-> FALSE],
        [b |-> "b1", d |-> Missing, st |-> "approved", reason |-> FALSE]}

DocumentStatus == {"pending", "approved", "rejected"}
BookingStatus ==
  {"pending", "partner_assigned", "documents_under_review", "confirmed", "cancelled"}
PartnerStatus == {"online", "offline", "busy"}

LonMumbai == 72877
BookingCity(b) == "Mumbai"
BookingCoordinates(b) ==
  IF b = "b1" THEN [lon |-> LonMumbai, lat |-> 19070] ELSE [lon |-> LonMumbai, lat |-> 19071]
SeedCity(p) == "Mumbai"
SeedLocation(p) ==
  IF p = "p1" THEN [lon |-> LonMumbai, lat |-> 19075] ELSE [lon |-> LonMumbai, lat |-> 19081]

GeoMaxDistance == 50000
GpsHistorySlice == 100

\* the cap on a partner's delivery counter
MaxDeliveries == 2

\* the GPS requests a behaviour issues, the limits and windows (seconds) a
\* deployment may configure, the seconds and the milliseconds of a second the
\* clock may advance
MaxPings == 3
MaxLimit == 2
MaxWindow == 1
MaxSeconds == 1
MaxSubMs == 1

\* the number of workflow requests a behaviour issues
MaxCalls == 2

Abs(x) == IF x < 0 THEN 0 - x ELSE x

\* spherical distance of two points of one meridian, in metres: one millidegree
\* of arc is 111 m on the sphere $geoNear uses
Distance(a, b) == 111 * Abs(a.lat - b.lat)

VARIABLES
  booking,    \* the bookings collection
  partner,    \* the partners collection
  lock,       \* the lock keys that exist in Redis
  owner,      \* for each lock key that exists, the request whose SET created it
  redis,      \* the deployment: "up", "flaky" (a command may fail), "noclient"
  req,        \* the assign / review / confirm request of each admin
  events,     \* the number of events published, per channel
  now,        \* Date.now(), milliseconds
  window,     \* the sorted set of each rate-limit key: its members
  expireAt,   \* the time at which each rate-limit key expires
  rlLimit,    \* GPS_RATE_LIMIT
  rlWindow,   \* GPS_RATE_LIMIT_WINDOW, seconds
  ping,       \* the GPS request of each device
  rlLog,      \* the rate-limit checks made so far, in order
  calls       \* the number of workflow requests issued in the behaviour

vars ==
  <<booking, partner, lock, owner, redis, req, events, now, window, expireAt,
    rlLimit, rlWindow, ping, rlLog, calls>>

rlVars == <<now, window, expireAt, rlLimit, rlWindow, ping, rlLog>>

(***************************************************************************)
(* lib/redis.ts, lib/lock.ts                                               *)
(***************************************************************************)
\* getRedisClient: throws without REDIS_URL or after a failed connection
HasClient == redis # "noclient"

\* whether a command sent now is answered: always on a healthy Redis, never without
\* a client, either way on a connection that drops and comes back
RedisAnswers ==
  IF redis = "up" THEN {TRUE} ELSE IF redis = "flaky" THEN {TRUE, FALSE} ELSE {FALSE}

BOOKING_ASSIGNMENT(b) == <<"assign", b, NoId>>
BOOKING_CONFIRMATION(b) == <<"confirm", b, NoId>>
\* a review key that leaves the document type out
DOCUMENT_REVIEW_PerBooking(b, d) == <<"review", b, NoId>>
DOCUMENT_REVIEW(b, d) == <<"review", b, d>>

LockKey(q) ==
  IF q.op = "assign" THEN BOOKING_ASSIGNMENT(q.b)
  ELSE IF q.op = "confirm" THEN BOOKING_CONFIRMATION(q.b)
  ELSE DOCUMENT_REVIEW(q.b, q.d)

\* an acquireLock that never looks at the key
acquireLockBlind(key, answered) == TRUE

\* an acquireLock that returns false when Redis throws
acquireLockFailClosed(key, answered) == IF answered THEN key \notin lock ELSE FALSE

\* acquireLock: SET key 'locked' EX expiry NX answers OK when the key is absent;
\* the catch returns true when Redis throws
acquireLock(key, answered) == IF answered THEN key \notin lock ELSE TRUE
LockAfterAcquire(key, answered) == IF answered THEN lock \cup {key} ELSE lock

\* releaseLock: DEL key, whoever set it; the catch skips it when Redis throws
LockAfterRelease(key, answered) == IF answered THEN lock \ {key} ELSE lock

\* the request whose SET NX created the key is its owner until the key goes
OwnerAfterAcquire(key, r, answered) ==
  IF answered /\ key \notin lock THEN owner \cup {<<key, r>>} ELSE owner
OwnerWithout(key) == {o \in owner : o[1] # key}
OwnerAfterRelease(key, answered) == IF answered THEN OwnerWithout(key) ELSE owner

IdleReq ==
  [pc |-> "idle", op |-> "none", b |-> NoId, d |-> NoId, st |-> NoId,
   sel |-> NoId, resp |-> "none", conc |-> FALSE, fresh |-> FALSE]

InFlight(q) == q.pc \notin {"idle", "done"}

\* the request is inside the operation withLock wraps
InCriticalSection(r) == req[r].pc \in {"read", "geo", "wbooking", "wpartner", "publish"}

\* a request enters its handler: the requests in flight at that moment overlap it
Issue(r, q) ==
  /\ calls < MaxCalls
  /\ calls' = calls + 1
  /\ req' = [x \in Admins |->
              IF x = r THEN [q EXCEPT !.conc = \E y \in Admins \ {r} : InFlight(req[y])]
              ELSE IF InFlight(req[x]) THEN [req[x] EXCEPT !.conc = TRUE]
              ELSE req[x]]

\* the validation of the body answers 400 before anything is touched
Refuse(r, op) == Issue(r, [IdleReq EXCEPT !.pc = "done", !.op = op, !.resp = "bad_request"])

\* the handler returns its response
Respond(r, kind) == req' = [req EXCEPT ![r].pc = "done", ![r].resp = kind]

\* the wrapped operation returns or throws: withLock's finally releases the key,
\* then the handler answers with the result or with what its catch makes of the error
Leave(r, kind) == req' = [req EXCEPT ![r].pc = "release", ![r].resp = kind]

HttpStatus(kind) ==
  IF kind = "ok" THEN 200
  ELSE IF kind = "bad_request" THEN 400
  ELSE IF kind = "conflict" THEN 409
  ELSE 500

(***************************************************************************)
(* withLock                                                                *)
(***************************************************************************)
\* a withLock that runs the operation whatever acquireLock answers
AcquireLockProceeds(r) ==
  /\ req[r].pc = "acquire"
  /\ \E answered \in RedisAnswers :
       /\ lock' = LockAfterAcquire(LockKey(req[r]), answered)
       /\ owner' = OwnerAfterAcquire(LockKey(req[r]), r, answered)
       /\ req' = [req EXCEPT ![r].pc = "read"]
  /\ UNCHANGED <<booking, partner, redis, events, rlVars, calls>>

\* a withLock that waits until the key is free
AcquireLockWaits(r) ==
  /\ req[r].pc = "acquire"
  /\ \E answered \in RedisAnswers :
       /\ acquireLock(LockKey(req[r]), answered)
       /\ lock' = LockAfterAcquire(LockKey(req[r]), answered)
       /\ owner' = OwnerAfterAcquire(LockKey(req[r]), r, answered)
       /\ req' = [req EXCEPT ![r].pc = "read"]
  /\ UNCHANGED <<booking, partner, redis, events, rlVars, calls>>

AcquireLock(r) ==
  /\ req[r].pc = "acquire"
  /\ \E answered \in RedisAnswers :
       IF acquireLock(LockKey(req[r]), answered)
         THEN /\ lock' = LockAfterAcquire(LockKey(req[r]), answered)
              /\ owner' = OwnerAfterAcquire(LockKey(req[r]), r, answered)
              /\ req' = [req EXCEPT ![r].pc = "read"]
         ELSE /\ Respond(r, "conflict")
              /\ UNCHANGED <<lock, owner>>
  /\ UNCHANGED <<booking, partner, redis, events, rlVars, calls>>

\* a withLock whose finally does not delete the key
ReleaseLockSkips(r) ==
  /\ req[r].pc = "release"
  /\ req' = [req EXCEPT ![r].pc = "done"]
  /\ UNCHANGED <<booking, partner, lock, owner, redis, events, rlVars, calls>>

ReleaseLock(r) ==
  /\ req[r].pc = "release"
  /\ \E answered \in RedisAnswers :
       /\ lock' = LockAfterRelease(LockKey(req[r]), answered)
       /\ owner' = OwnerAfterRelease(LockKey(req[r]), answered)
  /\ req' = [req EXCEPT ![r].pc = "done"]
  /\ UNCHANGED <<booking, partner, redis, events, rlVars, calls>>

\* a Redis that keeps a key for ever
LeaseNeverExpires(key) ==
  /\ FALSE
  /\ UNCHANGED vars

\* the lease of a key runs out: Redis drops the key
LeaseExpireKey(key) ==
  /\ key \in lock
  /\ lock' = lock \ {key}
  /\ owner' = OwnerWithout(key)
  /\ UNCHANGED <<booking, partner, redis, req, events, rlVars, calls>>

LeaseExpire == \E key \in lock : LeaseExpireKey(key)

\* the process that serves request r dies inside withLock: its finally never runs
Crash(r) ==
  /\ InCriticalSection(r) \/ req[r].pc = "release"
  /\ req' = [req EXCEPT ![r].pc = "crashed"]
  /\ UNCHANGED <<booking, partner, lock, owner, redis, events, rlVars, calls>>

\* publishBookingAssigned / publishDocumentReviewed / publishBookingConfirmed:
\* getRedisClient and publish are not guarded, a failure is thrown to the handler
Channel(op) ==
  IF op = "assign" THEN "booking:assigned"
  ELSE IF op = "review" THEN "document:reviewed"
  ELSE "booking:confirmed"

\* a handler that answers without publishing
PublishNothing(r) ==
  /\ req[r].pc = "publish"
  /\ Leave(r, "ok")
  /\ UNCHANGED <<booking, partner, lock, owner, redis, events, rlVars, calls>>

Publish(r) ==
  /\ req[r].pc = "publish"
  /\ \E answered \in RedisAnswers :
       IF answered
         THEN /\ events' = [events EXCEPT ![Channel(req[r].op)] = @ + 1]
              /\ Leave(r, "ok")
         ELSE /\ Leave(r, "redis_error")
              /\ UNCHANGED events
  /\ UNCHANGED <<booking, partner, lock, owner, redis, rlVars, calls>>

(***************************************************************************)
(* POST /api/bookings/assign                                               *)
(***************************************************************************)
\* the query without the filter on the city
EligibleAnyCity(b) ==
  {p \in Partners :
     /\ partner[p].status = "online"
     /\ partner[p].currentBookingId = NoId
     /\ Distance(BookingCoordinates(b), partner[p].location) <= GeoMaxDistance}

\* the query of $geoNear: online, the booking's city, no currentBookingId,
\* within maxDistance of the booking's coordinates
Eligible(b) ==
  {p \in Partners :
     /\ partner[p].status = "online"
     /\ partner[p].city = BookingCity(b)
     /\ partner[p].currentBookingId = NoId
     /\ Distance(BookingCoordinates(b), partner[p].location) <= GeoMaxDistance}

\* $geoNear sorts by distance and $limit 1 keeps the first: a nearest one
Nearest(b) ==
  {p \in Eligible(b) :
     \A o \in Eligible(b) :
       Distance(BookingCoordinates(b), partner[p].location)
         <= Distance(BookingCoordinates(b), partner[o].location)}

\* the validation of the body, then withLock
StartAssign(r, b) ==
  /\ ~InFlight(req[r])
  /\ IF b = Missing \/ ~IsValidObjectId(b)
       THEN Refuse(r, "assign")
       ELSE Issue(r, [IdleReq EXCEPT !.pc = "acquire", !.op = "assign", !.b = b,
                                     !.fresh = (/\ b \in Bookings
                                                /\ booking[b].status = "pending"
                                                /\ Eligible(b) # {})])
  /\ UNCHANGED <<booking, partner, lock, owner, redis, events, rlVars>>

\* findOne and the check of the status
AssignRead(r) ==
  /\ req[r].pc = "read"
  /\ req[r].op = "assign"
  /\ IF req[r].b \notin Bookings
       THEN Leave(r, "not_found")
       ELSE IF booking[req[r].b].status # "pending"
       THEN Leave(r, "invalid_state")
       ELSE req' = [req EXCEPT ![r].pc = "geo"]
  /\ UNCHANGED <<booking, partner, lock, owner, redis, events, rlVars, calls>>

AssignGeoNear(r) ==
  /\ req[r].pc = "geo"
  /\ IF Nearest(req[r].b) = {}
       THEN Leave(r, "no_partner")
       ELSE \E p \in Nearest(req[r].b) :
              req' = [req EXCEPT ![r].pc = "wbooking", ![r].sel = p]
  /\ UNCHANGED <<booking, partner, lock, owner, redis, events, rlVars, calls>>

AssignWriteBooking(r) ==
  /\ req[r].pc = "wbooking"
  /\ req[r].op = "assign"
  /\ booking' = [booking EXCEPT ![req[r].b] =
                   [@ EXCEPT !.partnerId = req[r].sel,
                             !.partnerAssignedAt = @ + 1,
                             !.partnerAssignedBy = r,
                             !.status = "partner_assigned"]]
  /\ req' = [req EXCEPT ![r].pc = "wpartner"]
  /\ UNCHANGED <<partner, lock, owner, redis, events, rlVars, calls>>

AssignWritePartner(r) ==
  /\ req[r].pc = "wpartner"
  /\ req[r].op = "assign"
  /\ partner' = [partner EXCEPT ![req[r].sel] =
                   [@ EXCEPT !.currentBookingId = req[r].b, !.status = "busy"]]
  /\ req' = [req EXCEPT ![r].pc = "publish"]
  /\ UNCHANGED <<booking, lock, owner, redis, events, rlVars, calls>>

(***************************************************************************)
(* POST /api/bookings/review                                               *)
(***************************************************************************)
\* the validation of the body, then withLock
StartReview(r, body) ==
  /\ ~InFlight(req[r])
  /\ IF \/ Missing \in {body.b, body.d, body.st}
        \/ ~IsValidObjectId(body.b)
        \/ body.st \notin DocumentStatus
        \/ (body.st = "rejected" /\ ~body.reason)
       THEN Refuse(r, "review")
       ELSE Issue(r, [IdleReq EXCEPT !.pc = "acquire", !.op = "review", !.b = body.b,
                                     !.d = body.d, !.st = body.st,
                                     !.fresh = (/\ body.b \in Bookings
                                                /\ body.d \in DocTypes
                                                /\ booking[body.b].status
                                                     \notin {"confirmed", "cancelled"}
                                                /\ booking[body.b].documents[body.d].status
                                                     = "pending")])
  /\ UNCHANGED <<booking, partner, lock, owner, redis, events, rlVars>>

\* findOne, the check of the booking's status, findIndex, the check of the document
ReviewRead(r) ==
  /\ req[r].pc = "read"
  /\ req[r].op = "review"
  /\ IF req[r].b \notin Bookings
       THEN Leave(r, "not_found")
       ELSE IF booking[req[r].b].status \in {"confirmed", "cancelled"}
       THEN Leave(r, "invalid_state")
       ELSE IF req[r].d \notin DocTypes
       THEN Leave(r, "document_not_found")
       ELSE IF booking[req[r].b].documents[req[r].d].status # "pending"
       THEN Leave(r, "already_reviewed")
       ELSE req' = [req EXCEPT ![r].pc = "wbooking"]
  /\ UNCHANGED <<booking, partner, lock, owner, redis, events, rlVars, calls>>

\* an updateOne that sets the fields of the document and leaves the booking's status
ReviewWriteDocumentOnly(r) ==
  /\ req[r].pc = "wbooking"
  /\ req[r].op = "review"
  /\ booking' = [booking EXCEPT ![req[r].b] =
                   [@ EXCEPT !.documents[req[r].d] =
                               [status |-> req[r].st, reviewedBy |-> r]]]
  /\ req' = [req EXCEPT ![r].pc = "publish"]
  /\ UNCHANGED <<partner, lock, owner, redis, events, rlVars, calls>>

\* updateOne: $set on the fields of documents.<index> and on the booking's status
ReviewWrite(r) ==
  /\ req[r].pc = "wbooking"
  /\ req[r].op = "review"
  /\ booking' = [booking EXCEPT ![req[r].b] =
                   [@ EXCEPT !.documents[req[r].d] =
                               [status |-> req[r].st, reviewedBy |-> r],
                             !.status = "documents_under_review"]]
  /\ req' = [req EXCEPT ![r].pc = "publish"]
  /\ UNCHANGED <<partner, lock, owner, redis, events, rlVars, calls>>

(***************************************************************************)
(* POST /api/bookings/confirm                                              *)
(***************************************************************************)
\* the validation of the body, then withLock
StartConfirm(r, b) ==
  /\ ~InFlight(req[r])
  /\ IF b = Missing \/ ~IsValidObjectId(b)
       THEN Refuse(r, "confirm")
       ELSE Issue(r, [IdleReq EXCEPT !.pc = "acquire", !.op = "confirm", !.b = b])
  /\ UNCHANGED <<booking, partner, lock, owner, redis, events, rlVars>>

\* the checks with the documents looked at before the partner
ConfirmCheckDocumentsFirst(bk) ==
  IF bk.status = "confirmed" THEN "already_confirmed"
  ELSE IF ~(\A d \in DocTypes : bk.documents[d].status = "approved")
  THEN "documents_not_approved"
  ELSE IF bk.partnerId = NoId THEN "no_partner_assigned"
  ELSE "pass"

\* what the checks of the wrapped operation make of the booking they read
ConfirmCheck(bk) ==
  IF bk.status = "confirmed" THEN "already_confirmed"
  ELSE IF bk.partnerId = NoId THEN "no_partner_assigned"
  ELSE IF ~(\A d \in DocTypes : bk.documents[d].status = "approved")
  THEN "documents_not_approved"
  ELSE "pass"

ConfirmRead(r) ==
  /\ req[r].pc = "read"
  /\ req[r].op = "confirm"
  /\ IF req[r].b \notin Bookings
       THEN Leave(r, "not_found")
       ELSE IF ConfirmCheck(booking[req[r].b]) # "pass"
       THEN Leave(r, ConfirmCheck(booking[req[r].b]))
       ELSE req' = [req EXCEPT ![r].pc = "wbooking",
                               ![r].sel = booking[req[r].b].partnerId]
  /\ UNCHANGED <<booking, partner, lock, owner, redis, events, rlVars, calls>>

ConfirmWriteBooking(r) ==
  /\ req[r].pc = "wbooking"
  /\ req[r].op = "confirm"
  /\ booking' = [booking EXCEPT ![req[r].b] =
                   [@ EXCEPT !.status = "confirmed", !.confirmedBy = r]]
  /\ req' = [req EXCEPT ![r].pc = "wpartner"]
  /\ UNCHANGED <<partner, lock, owner, redis, events, rlVars, calls>>

\* an updateOne that also frees the partner
ConfirmWritePartnerFrees(r) ==
  /\ req[r].pc = "wpartner"
  /\ req[r].op = "confirm"
  /\ partner[req[r].sel].totalDeliveries < MaxDeliveries
  /\ partner' = [partner EXCEPT ![req[r].sel] =
                   [@ EXCEPT !.totalDeliveries = @ + 1, !.status = "online",
                             !.currentBookingId = NoId]]
  /\ req' = [req EXCEPT ![r].pc = "publish"]
  /\ UNCHANGED <<booking, lock, owner, redis, events, rlVars, calls>>

\* updateOne with $inc totalDeliveries
ConfirmWritePartner(r) ==
  /\ req[r].pc = "wpartner"
  /\ req[r].op = "confirm"
  /\ partner[req[r].sel].totalDeliveries < MaxDeliveries
  /\ partner' = [partner EXCEPT ![req[r].sel].totalDeliveries = @ + 1]
  /\ req' = [req EXCEPT ![r].pc = "publish"]
  /\ UNCHANGED <<booking, lock, owner, redis, events, rlVars, calls>>

(***************************************************************************)
(* lib/rateLimit.ts                                                        *)
(***************************************************************************)
\* the invocations of the handler that may run at once, taken in order
Devices == 1..2

\* what a device may send: two positions for partner p1, a latitude out of range,
\* a well-formed id of no partner, a string that is no ObjectId
PingBodies ==
  {[id |-> "p1", lon |-> LonMumbai, lat |-> 19076],
   [id |-> "p1", lon |-> LonMumbai, lat |-> 19080],
   [id |-> "p1", lon |-> LonMumbai, lat |-> 90001],
   [id |-> "pX", lon |-> LonMumbai, lat |-> 19076],
   [id |-> "not-an-id", lon |-> LonMumbai, lat |-> 19076]}

GPS_UPDATE(partnerId) == <<"ratelimit:gps", partnerId>>
RateLimitKeys == {GPS_UPDATE("p1"), GPS_UPDATE("pX")}

IdlePing ==
  [pc |-> "idle", id |-> NoId, lat |-> 0, t |-> 0, resp |-> "none"]

\* the handler has answered
Answered(q, kind) == [IdlePing EXCEPT !.pc = "done", !.id = q.id, !.resp = kind]

PingInFlight(q) == q.pc \notin {"idle", "done"}

WindowMs(windowSeconds) == windowSeconds * 1000

\* zremrangebyscore key 0 windowStart: the members that stay
Trimmed(members, windowStart) == {m \in members : ~(0 <= m /\ m <= windowStart)}

\* zadd key now `${now}`: the member is the timestamp, a set holds it once
Added(members, t) == members \cup {t}

\* what rateLimit returns for the count that zcard answered
RateLimitResult(count, limit) ==
  [allowed |-> count < limit,
   remaining |-> IF limit - count - 1 > 0 THEN limit - count - 1 ELSE 0]

\* what rateLimit returns when the pipeline fails
RateLimitFallback(limit) == [allowed |-> TRUE, remaining |-> limit - 1]

(***************************************************************************)
(* POST /api/partners/[id]/gps                                             *)
(***************************************************************************)
InRange(body) ==
  /\ body.lon >= 0 - 180000 /\ body.lon <= 180000
  /\ body.lat >= 0 - 90000 /\ body.lat <= 90000

\* a handler that consults the rate limiter whatever the body holds
StartPingUnchecked(g, body) ==
  /\ ~PingInFlight(ping[g])
  /\ \A x \in Devices : x < g => PingInFlight(ping[x])
  /\ Len(rlLog) + Cardinality({x \in Devices : PingInFlight(ping[x])}) < MaxPings
  /\ ping' = [ping EXCEPT ![g] =
               [IdlePing EXCEPT !.pc = "ratelimit", !.id = body.id, !.lat = body.lat]]
  /\ UNCHANGED <<booking, partner, lock, owner, redis, req, events, now, window, expireAt,
                 rlLimit, rlWindow, rlLog, calls>>

\* the validation of the body, then rateLimit
StartPing(g, body) ==
  /\ ~PingInFlight(ping[g])
  /\ \A x \in Devices : x < g => PingInFlight(ping[x])
  /\ Len(rlLog) + Cardinality({x \in Devices : PingInFlight(ping[x])}) < MaxPings
  /\ ping' = [ping EXCEPT ![g] =
               IF InRange(body) /\ IsValidObjectId(body.id)
                 THEN [IdlePing EXCEPT !.pc = "ratelimit", !.id = body.id, !.lat = body.lat]
                 ELSE Answered(IdlePing, "bad_request")]
  /\ UNCHANGED <<booking, partner, lock, owner, redis, req, events, now, window, expireAt,
                 rlLimit, rlWindow, rlLog, calls>>

\* rateLimit: getRedisClient, outside the try, and Date.now()
RateLimitEnter(g) ==
  /\ ping[g].pc = "ratelimit"
  /\ IF HasClient
       THEN ping' = [ping EXCEPT ![g].pc = "exec", ![g].t = now]
       ELSE ping' = [ping EXCEPT ![g] = Answered(@, "redis_error")]
  /\ UNCHANGED <<booking, partner, lock, owner, redis, req, events, now, window, expireAt,
                 rlLimit, rlWindow, rlLog, calls>>

\* rateLimit: pipeline.exec() and the result; the handler answers 429 when refused
RateLimitExec(g) ==
  /\ ping[g].pc = "exec"
  /\ \E answered \in RedisAnswers :
       LET key == GPS_UPDATE(ping[g].id)
           kept == Trimmed(window[key], ping[g].t - WindowMs(rlWindow))
           res == IF answered THEN RateLimitResult(Cardinality(kept), rlLimit)
                  ELSE RateLimitFallback(rlLimit)
       IN /\ IF answered
               THEN /\ window' = [window EXCEPT ![key] = Added(kept, ping[g].t)]
                    /\ expireAt' = [expireAt EXCEPT ![key] = now + WindowMs(rlWindow)]
               ELSE UNCHANGED <<window, expireAt>>
          /\ rlLog' = Append(rlLog, [key |-> key, t |-> ping[g].t, at |-> now,
                                     allowed |-> res.allowed, remaining |-> res.remaining,
                                     answered |-> answered])
          /\ ping' = [ping EXCEPT ![g] = IF res.allowed THEN [@ EXCEPT !.pc = "find"]
                                          ELSE Answered(@, "rate_limited")]
  /\ UNCHANGED <<booking, partner, lock, owner, redis, req, events, now, rlLimit, rlWindow, calls>>

\* findOne
PingFind(g) ==
  /\ ping[g].pc = "find"
  /\ IF ping[g].id \in Partners
       THEN ping' = [ping EXCEPT ![g].pc = "update"]
       ELSE ping' = [ping EXCEPT ![g] = Answered(@, "not_found")]
  /\ UNCHANGED <<booking, partner, lock, owner, redis, req, events, now, window, expireAt,
                 rlLimit, rlWindow, rlLog, calls>>

\* a $slice: 100, which keeps the first 100 entries
SlicedHead(history) ==
  IF Len(history) <= GpsHistorySlice THEN history
  ELSE SubSeq(history, 1, GpsHistorySlice)

\* $push with $each and $slice: -100 keeps the last 100 entries
Sliced(history) ==
  IF Len(history) <= GpsHistorySlice THEN history
  ELSE SubSeq(history, Len(history) - GpsHistorySlice + 1, Len(history))

\* an updateOne that pushes the entry and leaves the location
PingUpdateHistoryOnly(g) ==
  /\ ping[g].pc = "update"
  /\ partner' = [partner EXCEPT ![ping[g].id] =
                   [@ EXCEPT !.gpsHistory =
                                Sliced(Append(@, [lon |-> LonMumbai, lat |-> ping[g].lat]))]]
  /\ ping' = [ping EXCEPT ![g].pc = "publish"]
  /\ UNCHANGED <<booking, lock, owner, redis, req, events, now, window, expireAt,
                 rlLimit, rlWindow, rlLog, calls>>

\* updateOne: $set location, $push gpsHistory; an entry of the history is
\* modelled by its position
PingUpdate(g) ==
  /\ ping[g].pc = "update"
  /\ partner' = [partner EXCEPT ![ping[g].id] =
                   [@ EXCEPT !.location = [lon |-> LonMumbai, lat |-> ping[g].lat],
                             !.gpsHistory =
                                Sliced(Append(@, [lon |-> LonMumbai, lat |-> ping[g].lat]))]]
  /\ ping' = [ping EXCEPT ![g].pc = "publish"]
  /\ UNCHANGED <<booking, lock, owner, redis, req, events, now, window, expireAt,
                 rlLimit, rlWindow, rlLog, calls>>

\* publishPartnerGPSUpdate: not guarded, a failure is thrown to the handler
PingPublish(g) ==
  /\ ping[g].pc = "publish"
  /\ \E answered \in RedisAnswers :
       IF answered
         THEN /\ events' = [events EXCEPT !["partner:gps:update"] = @ + 1]
              /\ ping' = [ping EXCEPT ![g] = Answered(@, "ok")]
         ELSE /\ ping' = [ping EXCEPT ![g] = Answered(@, "redis_error")]
              /\ UNCHANGED events
  /\ UNCHANGED <<booking, partner, lock, owner, redis, req, now, window, expireAt,
                 rlLimit, rlWindow, rlLog, calls>>

\* the clock advances by a millisecond or by a second
Tick(ms) ==
  /\ IF ms = 1 THEN now % 1000 < MaxSubMs ELSE now \div 1000 < MaxSeconds
  /\ now' = now + ms
  /\ UNCHANGED <<booking, partner, lock, owner, redis, req, events, window, expireAt,
                 rlLimit, rlWindow, ping, rlLog, calls>>

\* expire key windowSeconds: Redis drops the key when its time has come
KeyExpire ==
  /\ \E key \in RateLimitKeys :
       /\ window[key] # {}
       /\ now >= expireAt[key]
       /\ window' = [window EXCEPT ![key] = {}]
  /\ UNCHANGED <<booking, partner, lock, owner, redis, req, events, now, expireAt,
                 rlLimit, rlWindow, ping, rlLog, calls>>

Channels == {"booking:assigned", "document:reviewed", "booking:confirmed", "partner:gps:update"}

(***************************************************************************)
(* The database a behaviour starts from: what scripts/seed.ts inserts, or  *)
(* what completed requests have made of booking b1 since.                  *)
(***************************************************************************)
SeedBooking ==
  [status |-> "pending", partnerId |-> NoId, partnerAssignedBy |-> NoId,
   partnerAssignedAt |-> 0, confirmedBy |-> NoId,
   documents |-> [d \in DocTypes |-> [status |-> "pending", reviewedBy |-> NoId]]]

SeedPartner(p) ==
  [status |-> "online", city |-> SeedCity(p), currentBookingId |-> NoId,
   totalDeliveries |-> 0, location |-> SeedLocation(p), gpsHistory |-> <<>>]

\* b1 after assign by admin_001, reviews by admin_002, confirm by admin_001
Assigned(bk) ==
  [bk EXCEPT !.status = "partner_assigned", !.partnerId = "p1",
             !.partnerAssignedBy = "admin_001", !.partnerAssignedAt = 1]
Reviewed(bk, selfie, signature) ==
  [bk EXCEPT !.status = "documents_under_review",
             !.documents = [d \in DocTypes |->
                              IF d = "selfie" THEN [status |-> selfie, reviewedBy |-> "admin_002"]
                              ELSE IF signature = "pending" THEN bk.documents[d]
                              ELSE [status |-> signature, reviewedBy |-> "admin_002"]]]
Confirmed(bk) == [bk EXCEPT !.status = "confirmed", !.confirmedBy = "admin_001"]

Snapshots ==
  {SeedBooking,
   Assigned(SeedBooking),
   Reviewed(Assigned(SeedBooking), "approved", "pending"),
   Reviewed(Assigned(SeedBooking), "approved", "approved"),
   Reviewed(Assigned(SeedBooking), "rejected", "approved"),
   Reviewed(SeedBooking, "approved", "approved"),
   Confirmed(Reviewed(Assigned(SeedBooking), "approved", "approved"))}

\* the partners that go with booking b1 in state bk
PartnersOf(bk) ==
  [p \in Partners |->
     IF bk.partnerId = p
       THEN [SeedPartner(p) EXCEPT !.status = "busy", !.currentBookingId = "b1",
                                   !.totalDeliveries =
                                      IF bk.status = "confirmed" THEN 1 ELSE 0]
       ELSE SeedPartner(p)]

InitIdleGps ==
  /\ now = 0
  /\ window = [k \in RateLimitKeys |-> {}]
  /\ expireAt = [k \in RateLimitKeys |-> 0]
  /\ rlLimit = 6
  /\ rlWindow = 60
  /\ ping = [g \in Devices |-> IdlePing]
  /\ rlLog = <<>>

InitWorkflow(modes, states) ==
  /\ redis \in modes
  /\ \E bk \in states :
       /\ booking = [b \in Bookings |-> IF b = "b1" THEN bk ELSE SeedBooking]
       /\ partner = PartnersOf(bk)
  /\ lock = {}
  /\ owner = {}
  /\ req = [r \in Admins |-> IdleReq]
  /\ events = [c \in Channels |-> 0]
  /\ calls = 0
  /\ InitIdleGps

Init == InitWorkflow({"up", "flaky", "noclient"}, Snapshots)

InitRedisUp == InitWorkflow({"up"}, Snapshots)

\* the requests and the expiry of leases
Next ==
  \/ \E r \in Admins, b \in BookingIds : StartAssign(r, b)
  \/ \E r \in Admins, body \in ReviewBodies : StartReview(r, body)
  \/ \E r \in Admins, b \in BookingIds : StartConfirm(r, b)
  \/ \E r \in Admins : AcquireLock(r)
  \/ \E r \in Admins : AssignRead(r)
  \/ \E r \in Admins : AssignGeoNear(r)
  \/ \E r \in Admins : AssignWriteBooking(r)
  \/ \E r \in Admins : AssignWritePartner(r)
  \/ \E r \in Admins : ReviewRead(r)
  \/ \E r \in Admins : ReviewWrite(r)
  \/ \E r \in Admins : ConfirmRead(r)
  \/ \E r \in Admins : ConfirmWriteBooking(r)
  \/ \E r \in Admins : ConfirmWritePartner(r)
  \/ \E r \in Admins : Publish(r)
  \/ \E r \in Admins : ReleaseLock(r)
  \/ LeaseExpire

\* the partners a pool may hold: online or offline, of the bookings' city or of
\* another, free or on a booking outside the fixture, 111 m, 555 m or 50061 m
\* north of booking b1
PoolProfiles ==
  {[status |-> st, city |-> c, currentBookingId |-> cb, totalDeliveries |-> 0,
    location |-> [lon |-> LonMumbai, lat |-> lat], gpsHistory |-> <<>>] :
     st \in {"online", "offline"}, c \in {"Mumbai", "Delhi"}, cb \in {NoId, "b0"},
     lat \in {19071, 19075, 19521}}

\* pending bookings before any pool of partners
InitSelect ==
  /\ redis = "up"
  /\ booking = [b \in Bookings |-> SeedBooking]
  /\ partner \in [Partners -> PoolProfiles]
  /\ lock = {}
  /\ owner = {}
  /\ req = [r \in Admins |-> IdleReq]
  /\ events = [c \in Channels |-> 0]
  /\ calls = 0
  /\ InitIdleGps

\* the assign requests and the expiry of leases
NextSelect ==
  \/ \E r \in Admins, b \in BookingIds : StartAssign(r, b)
  \/ \E r \in Admins : AcquireLock(r)
  \/ \E r \in Admins : AssignRead(r)
  \/ \E r \in Admins : AssignGeoNear(r)
  \/ \E r \in Admins : AssignWriteBooking(r)
  \/ \E r \in Admins : AssignWritePartner(r)
  \/ \E r \in Admins : Publish(r)
  \/ \E r \in Admins : ReleaseLock(r)
  \/ LeaseExpire

\* the assignment over every pool of partners, Redis healthy
SpecSelect == InitSelect /\ [][NextSelect]_vars

\* booking b1 has its partner p1, booking b2 is pending, and partner p2 is online
\* or offline
InitKinds ==
  /\ redis = "up"
  /\ booking = [b \in Bookings |-> IF b = "b1" THEN Assigned(SeedBooking) ELSE SeedBooking]
  /\ \E st \in {"online", "offline"} :
       partner = [PartnersOf(Assigned(SeedBooking)) EXCEPT !["p2"].status = st]
  /\ lock = {}
  /\ owner = {}
  /\ req = [r \in Admins |-> IdleReq]
  /\ events = [c \in Channels |-> 0]
  /\ calls = 0
  /\ InitIdleGps

\* the assign requests on bookings of which one is assigned, Redis healthy
SpecKinds == InitKinds /\ [][NextSelect]_vars

\* the keys the assign requests of the fixture may lock
AssignKeys ==
  {BOOKING_ASSIGNMENT(b) : b \in {x \in BookingIds : x # Missing /\ IsValidObjectId(x)}}

\* the assign requests, the death of their processes and the expiry of leases
NextLease ==
  \/ \E r \in Admins, b \in BookingIds : StartAssign(r, b)
  \/ \E r \in Admins : AcquireLock(r)
  \/ \E r \in Admins : AssignRead(r)
  \/ \E r \in Admins : AssignGeoNear(r)
  \/ \E r \in Admins : AssignWriteBooking(r)
  \/ \E r \in Admins : AssignWritePartner(r)
  \/ \E r \in Admins : Publish(r)
  \/ \E r \in Admins : ReleaseLock(r)
  \/ \E r \in Admins : Crash(r)
  \/ LeaseExpire

\* the assignment with processes that may die, Redis healthy: a key that exists
\* reaches the end of its lease
SpecLease ==
  /\ InitWorkflow({"up"}, {SeedBooking})
  /\ [][NextLease]_vars
  /\ \A key \in AssignKeys : WF_vars(LeaseExpireKey(key))

InitGps(modes) ==
  /\ redis \in modes
  /\ booking = [b \in Bookings |-> SeedBooking]
  /\ partner = [p \in Partners |-> SeedPartner(p)]
  /\ lock = {}
  /\ owner = {}
  /\ req = [r \in Admins |-> IdleReq]
  /\ events = [c \in Channels |-> 0]
  /\ calls = 0
  /\ now = 0
  /\ window = [k \in RateLimitKeys |-> {}]
  /\ expireAt = [k \in RateLimitKeys |-> 0]
  /\ rlLimit \in 1..MaxLimit
  /\ rlWindow \in 1..MaxWindow
  /\ ping = [g \in Devices |-> IdlePing]
  /\ rlLog = <<>>

\* the GPS requests, the clock and the expiry of rate-limit keys
NextGps ==
  \/ \E g \in Devices, body \in PingBodies : StartPing(g, body)
  \/ \E g \in Devices : RateLimitEnter(g)
  \/ \E g \in Devices : RateLimitExec(g)
  \/ \E g \in Devices : PingFind(g)
  \/ \E g \in Devices : PingUpdate(g)
  \/ \E g \in Devices : PingPublish(g)
  \/ \E ms \in {1, 1000} : Tick(ms)
  \/ KeyExpire

\* the history that n earlier pings have left, each from a place of its own
OldHistory(n) == [i \in 1..n |-> [lon |-> LonMumbai, lat |-> 18900 + i]]

\* partner p1 with an empty history, with one entry below the cap, at the cap
InitHistory ==
  /\ redis = "up"
  /\ booking = [b \in Bookings |-> SeedBooking]
  /\ \E n \in {0, GpsHistorySlice - 1, GpsHistorySlice} :
       partner = [p \in Partners |->
                   IF p = "p1" THEN [SeedPartner(p) EXCEPT !.gpsHistory = OldHistory(n)]
                   ELSE SeedPartner(p)]
  /\ lock = {}
  /\ owner = {}
  /\ req = [r \in Admins |-> IdleReq]
  /\ events = [c \in Channels |-> 0]
  /\ calls = 0
  /\ now = 0
  /\ window = [k \in RateLimitKeys |-> {}]
  /\ expireAt = [k \in RateLimitKeys |-> 0]
  /\ rlLimit = MaxLimit
  /\ rlWindow = MaxWindow
  /\ ping = [g \in Devices |-> IdlePing]
  /\ rlLog = <<>>

\* the GPS ingestion for a partner whose history is empty or near its cap
SpecHistory == InitHistory /\ [][NextGps]_vars

\* partner p1 has just used up its quota: rlLimit checks were admitted, one in each
\* of the first milliseconds, and their members fill its window
InitRetry ==
  /\ redis = "up"
  /\ booking = [b \in Bookings |-> SeedBooking]
  /\ partner = [p \in Partners |-> SeedPartner(p)]
  /\ lock = {}
  /\ owner = {}
  /\ req = [r \in Admins |-> IdleReq]
  /\ events = [c \in Channels |-> 0]
  /\ calls = 0
  /\ rlLimit \in 1..MaxLimit
  /\ rlWindow \in 1..MaxWindow
  /\ now = rlLimit - 1
  /\ window = [k \in RateLimitKeys |-> IF k = GPS_UPDATE("p1") THEN 0..(rlLimit - 1) ELSE {}]
  /\ expireAt = [k \in RateLimitKeys |->
                   IF k = GPS_UPDATE("p1") THEN now + WindowMs(rlWindow) ELSE 0]
  /\ ping = [g \in Devices |-> IdlePing]
  /\ rlLog = <<>>

\* the GPS requests with a clock that advances by a millisecond or by one
\* millisecond less than a second, so that a request may fall inside the second
\* that follows another
NextRetry ==
  \/ \E g \in Devices, body \in PingBodies : StartPing(g, body)
  \/ \E g \in Devices : RateLimitEnter(g)
  \/ \E g \in Devices : RateLimitExec(g)
  \/ \E g \in Devices : PingFind(g)
  \/ \E g \in Devices : PingUpdate(g)
  \/ \E g \in Devices : PingPublish(g)
  \/ \E ms \in {1, 999} : Tick(ms)
  \/ KeyExpire

\* the GPS ingestion for a partner whose quota is used up, Redis healthy
SpecRetry == InitRetry /\ [][NextRetry]_vars

\* the GPS ingestion on every deployment
SpecGps == InitGps({"up", "flaky", "noclient"}) /\ [][NextGps]_vars

\* the GPS ingestion on a deployment whose Redis is healthy throughout
SpecGpsRedisUp == InitGps({"up"}) /\ [][NextGps]_vars

\* the workflow on every deployment
Spec == Init /\ [][Next]_vars

\* the workflow on a deployment whose Redis is healthy throughout
SpecRedisUp == InitRedisUp /\ [][Next]_vars

\* the next step of the handler that serves request r
HandlerStep(r) ==
  \/ AcquireLock(r)
  \/ AssignRead(r)
  \/ AssignGeoNear(r)
  \/ AssignWriteBooking(r)
  \/ AssignWritePartner(r)
  \/ ReviewRead(r)
  \/ ReviewWrite(r)
  \/ ConfirmRead(r)
  \/ ConfirmWriteBooking(r)
  \/ ConfirmWritePartner(r)
  \/ Publish(r)
  \/ ReleaseLock(r)

\* the workflow on every deployment, beside a pending booking b2 and a booking b1
\* that is ready to be confirmed, with handlers that go on running: every await
\* of a handler is answered, by a result or by an error
SpecLive ==
  /\ InitWorkflow({"up", "flaky", "noclient"},
                  {Reviewed(Assigned(SeedBooking), "approved", "approved")})
  /\ [][Next]_vars
  /\ \A r \in Admins : WF_vars(HandlerStep(r))

\* a booking that was cancelled upstream, at whatever stage it had reached
Cancelled(bk) == [bk EXCEPT !.status = "cancelled"]

CancelledSnapshots ==
  {Cancelled(SeedBooking),
   Cancelled(Assigned(SeedBooking)),
   Cancelled(Reviewed(SeedBooking, "approved", "pending")),
   Cancelled(Reviewed(Assigned(SeedBooking), "approved", "pending")),
   Cancelled(Reviewed(Assigned(SeedBooking), "approved", "approved"))}

\* the workflow beside a cancelled booking b1, Redis healthy
SpecCancelled == InitWorkflow({"up"}, CancelledSnapshots) /\ [][Next]_vars

\* a review of the signature of booking b1 by admin_001 has acquired its key and
\* read the document as pending, and has not written yet; the selfie is approved
\* and b1 has its partner
StalledReview(st) ==
  [IdleReq EXCEPT !.pc = "wbooking", !.op = "review", !.b = "b1", !.d = "signature",
                  !.st = st, !.fresh = TRUE]

InitStalledReview ==
  /\ redis = "up"
  /\ booking = [b \in Bookings |->
                  IF b = "b1" THEN Reviewed(Assigned(SeedBooking), "approved", "pending")
                  ELSE SeedBooking]
  /\ partner = PartnersOf(Assigned(SeedBooking))
  /\ \E st \in {"approved", "rejected"} :
       req = [r \in Admins |-> IF r = "admin_001" THEN StalledReview(st) ELSE IdleReq]
  /\ lock = {DOCUMENT_REVIEW("b1", "signature")}
  /\ owner = {<<DOCUMENT_REVIEW("b1", "signature"), "admin_001">>}
  /\ events = [c \in Channels |-> 0]
  /\ calls = 0
  /\ InitIdleGps

\* the workflow beside a review that is slow to write, Redis healthy
SpecStalledReview == InitStalledReview /\ [][Next]_vars

(***************************************************************************)
(* The claims about the lock and the workflow                              *)
(***************************************************************************)
\* two requests of one kind whose handlers overlapped and that have both answered
Raced(r1, r2, op) ==
  /\ r1 # r2
  /\ req[r1].op = op /\ req[r2].op = op
  /\ req[r1].pc = "done" /\ req[r2].pc = "done"
  /\ req[r1].conc /\ req[r2].conc
  /\ req[r1].fresh /\ req[r2].fresh

\* C1: for every lock key, at most one wrapped operation is executing at any time,
\* also when a holder's operation outlasts its lease
C1_MutualExclusion ==
  \A r1, r2 \in Admins :
    (r1 # r2 /\ InCriticalSection(r1) /\ InCriticalSection(r2))
      => LockKey(req[r1]) # LockKey(req[r2])

\* C2: of two concurrent assign requests for one pending booking with an eligible
\* partner, exactly one answers success and the other answers the 409 conflict
C2_OneSuccessOneConflict ==
  \A r1, r2 \in Admins :
    (Raced(r1, r2, "assign") /\ req[r1].b = req[r2].b)
      => \/ (req[r1].resp = "ok" /\ req[r2].resp = "conflict")
         \/ (req[r2].resp = "ok" /\ req[r1].resp = "conflict")

\* C3: once a booking has a partner, no assign changes its partnerId,
\* partnerAssignedBy or partnerAssignedAt
C3_AssignedOnce ==
  [][\A b \in Bookings :
       booking[b].partnerId # NoId
         => /\ booking'[b].partnerId = booking[b].partnerId
            /\ booking'[b].partnerAssignedBy = booking[b].partnerAssignedBy
            /\ booking'[b].partnerAssignedAt = booking[b].partnerAssignedAt]_vars

\* C4: no partner is the partnerId of two different bookings that are neither
\* confirmed nor cancelled
C4_PartnerOfOneBooking ==
  \A b1, b2 \in Bookings :
    (/\ b1 # b2
     /\ booking[b1].status \notin {"confirmed", "cancelled"}
     /\ booking[b2].status \notin {"confirmed", "cancelled"}
     /\ booking[b1].partnerId # NoId)
      => booking[b1].partnerId # booking[b2].partnerId

Rank(status) ==
  IF status = "pending" THEN 0
  ELSE IF status = "partner_assigned" THEN 1
  ELSE IF status = "documents_under_review" THEN 2
  ELSE 3

\* C5: the status of a booking never moves backwards in
\* pending < partner_assigned < documents_under_review < confirmed
C5_StatusNeverRegresses ==
  [][\A b \in Bookings : Rank(booking'[b].status) >= Rank(booking[b].status)]_vars

\* C6: of two concurrent reviews that approve or reject one pending document, exactly
\* one succeeds, the other is refused as a conflict or as already reviewed, and the
\* document holds the decision of the one that succeeded
C6_OneReviewWins ==
  \A r1, r2 \in Admins :
    (/\ Raced(r1, r2, "review")
     /\ req[r1].b = req[r2].b /\ req[r1].d = req[r2].d
     /\ req[r1].st \in {"approved", "rejected"} /\ req[r2].st \in {"approved", "rejected"}
     /\ req[r1].resp = "ok")
      => /\ req[r2].resp \in {"conflict", "already_reviewed"}
         /\ booking[req[r1].b].documents[req[r1].d].status = req[r1].st

\* a confirm request reads an existing booking that is not confirmed yet
ConfirmReads(r) ==
  /\ req[r].op = "confirm"
  /\ req[r].pc = "read"
  /\ req'[r].pc # "read"
  /\ req[r].b \in Bookings
  /\ booking[req[r].b].status # "confirmed"

AllApproved(bk) == \A d \in DocTypes : bk.documents[d].status = "approved"

\* C7 as stated: confirm is refused with documents-not-approved iff some document is
\* not approved, and goes through iff all are approved and a partner is assigned
C7_AsStated ==
  [][\A r \in Admins :
       ConfirmReads(r)
         => /\ (req'[r].resp = "documents_not_approved")
                 <=> ~AllApproved(booking[req[r].b])
            /\ (req'[r].pc = "wbooking")
                 <=> (AllApproved(booking[req[r].b]) /\ booking[req[r].b].partnerId # NoId)]_vars

\* C7 as amended: confirm is refused with documents-not-approved iff a partner is
\* assigned and some document is not approved (without a partner it is refused for
\* the missing partner, whatever the documents), and it passes its checks and goes
\* on to write the confirmation iff all documents are approved and a partner is assigned
C7_ConfirmOutcome ==
  [][\A r \in Admins :
       ConfirmReads(r)
         => /\ (req'[r].resp = "documents_not_approved")
                 <=> (booking[req[r].b].partnerId # NoId /\ ~AllApproved(booking[req[r].b]))
            /\ (req'[r].resp = "no_partner_assigned")
                 <=> (booking[req[r].b].partnerId = NoId)
            /\ (req'[r].pc = "wbooking")
                 <=> (AllApproved(booking[req[r].b]) /\ booking[req[r].b].partnerId # NoId)]_vars

\* one confirm was refused for the documents of a booking that has its partner,
\* another for the missing partner of a booking whose documents are pending
C7_Witness ==
  \E r1, r2 \in Admins :
    /\ req[r1].op = "confirm" /\ req[r1].pc = "done"
    /\ req[r1].resp = "documents_not_approved"
    /\ booking[req[r1].b].partnerId # NoId
    /\ req[r2].op = "confirm" /\ req[r2].pc = "done"
    /\ req[r2].resp = "no_partner_assigned"
    /\ ~AllApproved(booking[req[r2].b])

\* the checks of one subject, in the order Redis ran them
LogOf(key) == SelectSeq(rlLog, LAMBDA e : e.key = key)

\* the checks of a log were made one after the other inside one window
SingleWindow(log) ==
  /\ \A i, j \in 1..Len(log) : i <= j => log[i].t <= log[j].t
  /\ \A i \in 1..Len(log) : log[Len(log)].t - log[i].t < WindowMs(rlWindow)

\* Redis ran every check in the millisecond in which the check read the clock
Timely == \A i \in 1..Len(rlLog) : rlLog[i].at = rlLog[i].t

\* no request ever ran beside another
Sequential == \A g \in Devices : g > 1 => ping[g].pc = "idle"

\* C8: when the checks of a subject are made one after the other inside a single
\* window, with Redis answering each of them without delay, exactly the first
\* rlLimit of them are allowed, with remaining rlLimit-1, rlLimit-2, ..., 0, and
\* every later one is refused with remaining 0.
C8_FirstLimitAllowed ==
  \A key \in RateLimitKeys :
    LET log == LogOf(key)
    IN (Sequential /\ Timely /\ redis = "up" /\ SingleWindow(log)) =>
         \A i \in 1..Len(log) :
           /\ log[i].allowed = (i <= rlLimit)
           /\ log[i].remaining = IF i <= rlLimit THEN rlLimit - i ELSE 0

\* the allowed checks of a subject whose timestamp lies in the window that ends at t
AllowedInWindow(key, t) ==
  {i \in 1..Len(rlLog) :
     /\ rlLog[i].key = key
     /\ rlLog[i].allowed
     /\ rlLog[i].t <= t
     /\ rlLog[i].t > t - WindowMs(rlWindow)}

\* C9: for every subject and every trailing window of rlWindow seconds, at most
\* rlLimit checks are allowed, whatever the interleaving of the requests and
\* whatever the clock values they read, equal ones included; stated for the
\* behaviours in which Redis answers every check without delay.
C9_AtMostLimitPerWindow ==
  Timely =>
    \A key \in RateLimitKeys :
      \A i \in 1..Len(rlLog) :
        Cardinality(AllowedInWindow(key, rlLog[i].t)) <= rlLimit

\* C10: when Redis is unavailable, the client not obtained or the pipeline failed,
\* the check allows the request and the handler does not answer with the failure
\* of Redis.
C10_FailOpen ==
  /\ \A i \in 1..Len(rlLog) : ~rlLog[i].answered => rlLog[i].allowed
  /\ \A g \in Devices : ping[g].resp # "redis_error"

(***************************************************************************)
(* The claims about the selection, the lock primitives and the failures    *)
(***************************************************************************)
\* the request r runs $geoNear in this step
Selects(r) == req[r].op = "assign" /\ req[r].pc = "geo" /\ req'[r].pc # "geo"

\* partner p is online, of the booking's city, free and within 50 km of booking b
Qualifies(p, b) ==
  /\ partner[p].status = "online"
  /\ partner[p].city = BookingCity(b)
  /\ partner[p].currentBookingId = NoId
  /\ 111 * Abs(partner[p].location.lat - BookingCoordinates(b).lat) <= 50000

\* partner o lies strictly nearer to booking b than partner p
StrictlyNearer(o, p, b) ==
  Abs(partner[o].location.lat - BookingCoordinates(b).lat)
    < Abs(partner[p].location.lat - BookingCoordinates(b).lat)

\* C11: the partner an assign selects is, at the time of the selection, online, of
\* the booking's city, free and within 50 km, and no partner with these four
\* properties is strictly nearer; when no partner has them the operation fails
\* with the no-partner error, and only then.
C11_NearestEligible ==
  [][\A r \in Admins :
       Selects(r) =>
         LET b == req[r].b
             p == req'[r].sel
         IN IF \E q \in Partners : Qualifies(q, b)
              THEN /\ req'[r].pc = "wbooking"
                   /\ p \in Partners
                   /\ Qualifies(p, b)
                   /\ \A o \in Partners : Qualifies(o, b) => ~StrictlyNearer(o, p, b)
              ELSE req'[r].pc = "release" /\ req'[r].resp = "no_partner"]_vars

\* an assign has chosen the farther of two free online partners within the radius
\* because the nearer one is of another city
C11_Witness ==
  \E r \in Admins, o \in Partners :
    /\ req[r].op = "assign" /\ req[r].pc = "wbooking"
    /\ partner[o].city # BookingCity(req[r].b)
    /\ partner[o].status = "online" /\ partner[o].currentBookingId = NoId
    /\ StrictlyNearer(o, req[r].sel, req[r].b)

\* acquireLock of request r returns in this step, with true or with false
AcquireReturns(r) == req[r].pc = "acquire" /\ req'[r].pc # "acquire"
AcquiredTrue(r) == req'[r].pc = "read"

Enters(r) == ~InCriticalSection(r) /\ req'[r].pc \in {"read", "geo", "wbooking", "wpartner", "publish"}

HeldBy(key) ==
  \E r \in Admins :
    /\ LockKey(req[r]) = key
    /\ (InCriticalSection(r) \/ req[r].pc = "release")

\* the wrapped operation of request r ends in this step, by return or by throw
Leaves(r) == InCriticalSection(r) /\ req'[r].pc \notin {"read", "geo", "wbooking", "wpartner", "publish"}

\* C14 as stated: once every withLock call for a key has returned or thrown, the
\* key is not held.
C14_AsStated == \A key \in lock : HeldBy(key)

\* C14 as amended: the release step runs after every wrapped operation, whether
\* it returned or threw; while Redis answers, it deletes the key, so that a key
\* exists only while a withLock call for it is running; when the delete fails the
\* key stays as it is (until its lease runs out).
C14_ReleasedAfterwards ==
  /\ [](redis = "up" => \A key \in lock : HeldBy(key))
  /\ [][\A r \in Admins :
          /\ Leaves(r) => req'[r].pc = "release"
          /\ (req[r].pc = "release" /\ req'[r].pc = "done") =>
               \/ lock' = lock \ {LockKey(req[r])}
               \/ redis # "up" /\ lock' = lock]_vars

\* one request has succeeded and another has failed inside its operation, both
\* have finished and no key is left
C14_Witness ==
  \E r1, r2 \in Admins :
    /\ req[r1].pc = "done" /\ req[r1].resp = "ok"
    /\ req[r2].pc = "done"
    /\ req[r2].resp \in {"not_found", "invalid_state", "no_partner", "already_reviewed",
                         "documents_not_approved"}
    /\ lock = {}

\* a request died inside withLock and the key it locked exists
Orphaned(key) ==
  /\ key \in lock
  /\ \E r \in Admins : req[r].pc = "crashed" /\ LockKey(req[r]) = key

\* C15: a key whose holder has died without releasing it becomes free, so that a
\* later acquireLock for it succeeds.
C15_LeaseFreesKey == \A key \in AssignKeys : Orphaned(key) ~> (key \notin lock)

\* a request has acquired the key that a dead request had locked
C15_Witness ==
  \E r1, r2 \in Admins :
    /\ req[r1].pc = "crashed"
    /\ InCriticalSection(r2)
    /\ LockKey(req[r1]) = LockKey(req[r2])
    /\ LockKey(req[r2]) \in lock

\* the outcome of request r is decided in this step, and it is a failure
FailsNow(r) ==
  /\ req[r].pc # "release"
  /\ req'[r] # req[r]
  /\ req'[r].pc \in {"release", "done"}
  /\ req'[r].resp \notin {"none", "ok"}

\* C16: a request that ends in a failure has written no booking and no partner:
\* the failure is decided before the first write of the request, and the step
\* that decides it writes nothing.
C16_FailureLeavesNoTrace ==
  [][\A r \in Admins :
       FailsNow(r) =>
         /\ req[r].pc \notin {"wbooking", "wpartner", "publish"}
         /\ UNCHANGED <<booking, partner>>]_vars

(***************************************************************************)
(* The claims about events, Redis outages, the GPS history and validation  *)
(***************************************************************************)
\* the outcome of request r, of GPS request g, is decided in this step: success
SucceedsNow(r) == req[r].pc # "release" /\ req'[r] # req[r] /\ req'[r].resp = "ok"
PingSucceedsNow(g) == ping'[g] # ping[g] /\ ping'[g].resp = "ok"

AnswersAfterWrites(r) == req[r].pc = "publish" /\ req'[r].pc # "publish"

\* C18: an assign, review or confirm request whose preconditions hold reports
\* success, also when Redis is unavailable.
C18_SucceedsWithoutRedis ==
  [][\A r \in Admins : AnswersAfterWrites(r) => req'[r].resp = "ok"]_vars

\* the GPS request g stores its ping in this step
Stores(g) == ping[g].pc = "update" /\ ping'[g].pc # "update"

\* C19: the history of a partner never holds more than 100 entries, and a stored
\* ping becomes its last entry, behind the most recent entries there were, in
\* their order: all of them below the cap, all but the oldest at the cap.
C19_LastHundred ==
  /\ [](\A p \in Partners : Len(partner[p].gpsHistory) <= 100)
  /\ [][\A g \in Devices :
          Stores(g) =>
            LET old == partner[ping[g].id].gpsHistory
                new == partner'[ping[g].id].gpsHistory
                drop == IF Len(old) + 1 > 100 THEN Len(old) + 1 - 100 ELSE 0
            IN /\ Len(new) = Len(old) + 1 - drop
               /\ new[Len(new)] = [lon |-> LonMumbai, lat |-> ping[g].lat]
               /\ \A i \in 1..(Len(new) - 1) : new[i] = old[i + drop]]_vars

\* two pings were stored at the cap: the two oldest entries are gone, the pings
\* are the last two of 100
C19_Witness ==
  LET h == partner["p1"].gpsHistory
  IN /\ Len(h) = 100
     /\ h[1] = [lon |-> LonMumbai, lat |-> 18903]
     /\ h[98] = [lon |-> LonMumbai, lat |-> 19000]
     /\ h[99].lat = 19076
     /\ h[100].lat = 19080

\* the request r, the GPS request g, is answered 400 in this step
RefusedNow(r) == req'[r] # req[r] /\ req'[r].resp = "bad_request"
PingRefusedNow(g) == ping'[g] # ping[g] /\ ping'[g].resp = "bad_request"

\* what a request that got past the validation carries
WellFormed(q) ==
  /\ q.b # Missing /\ IsValidObjectId(q.b)
  /\ q.op = "review" => (q.d # Missing /\ q.st \in DocumentStatus)
PingWellFormed(q) ==
  /\ IsValidObjectId(q.id)
  /\ q.lat >= 0 - 90000 /\ q.lat <= 90000

\* C20: the step that answers a malformed request with 400 is the first step of
\* the request and touches no lock, no rate-limit window, no booking, no partner
\* and no event; a request that reaches the lock or the rate limiter carries
\* well-formed ids, a known document status and coordinates within range.
C20_ValidationTouchesNothing ==
  /\ [](\A r \in Admins : InFlight(req[r]) => WellFormed(req[r]))
  /\ [](\A g \in Devices : PingInFlight(ping[g]) => PingWellFormed(ping[g]))
  /\ [][/\ \A r \in Admins :
            RefusedNow(r) =>
              /\ ~InFlight(req[r]) /\ req'[r].pc = "done"
              /\ UNCHANGED <<booking, partner, lock, owner, events, window, expireAt, rlLog>>
       /\ \A g \in Devices :
            PingRefusedNow(g) =>
              /\ ~PingInFlight(ping[g]) /\ ping'[g].pc = "done"
              /\ UNCHANGED <<booking, partner, lock, owner, events, window, expireAt, rlLog>>]_vars

\* a GPS request was answered 400 while the window of a partner held an earlier
\* check, which is all the window holds
C20_Witness ==
  \E g \in Devices :
    /\ ping[g].pc = "done" /\ ping[g].resp = "bad_request"
    /\ Len(rlLog) = 1
    /\ window[rlLog[1].key] = {rlLog[1].t}

(***************************************************************************)
(* The claims about terminal states, the scope of the locks and the        *)
(* outcomes of assign                                                      *)
(***************************************************************************)
\* C21: a cancelled booking is terminal: no step of an assign, review or confirm
\* request changes its status, its partner fields or its documents.
C21_CancelledIsTerminal ==
  [][\A b \in Bookings :
       booking[b].status = "cancelled"
         => /\ booking'[b].status = "cancelled"
            /\ booking'[b].partnerId = booking[b].partnerId
            /\ booking'[b].partnerAssignedBy = booking[b].partnerAssignedBy
            /\ booking'[b].partnerAssignedAt = booking[b].partnerAssignedAt
            /\ booking'[b].documents = booking[b].documents]_vars

\* C22: for every booking, the wrapped operation of an assign and the wrapped
\* operation of a confirm of that booking are never running at the same time.
C22_AssignExcludesConfirm ==
  \A r1, r2 \in Admins :
    (/\ req[r1].op = "assign" /\ InCriticalSection(r1)
     /\ req[r2].op = "confirm" /\ InCriticalSection(r2))
      => req[r1].b # req[r2].b

\* two reviews of different documents of one booking whose handlers overlapped,
\* each asked while its document was pending, and that have both answered
RacedOnTwoDocuments(r1, r2) ==
  /\ Raced(r1, r2, "review")
  /\ req[r1].b = req[r2].b
  /\ req[r1].d # req[r2].d

\* the review request r reads its document as pending, on a booking that is
\* neither confirmed nor cancelled
ReadsPendingDocument(r) ==
  /\ req[r].op = "review"
  /\ req[r].pc = "read"
  /\ req'[r].pc # "read"
  /\ req[r].b \in Bookings
  /\ req[r].d \in DocTypes
  /\ booking[req[r].b].status \notin {"confirmed", "cancelled"}
  /\ booking[req[r].b].documents[req[r].d].status = "pending"

\* C23: reviews of different documents of one booking do not get in each other's
\* way: a review is refused for the lock only when the key of its own booking and
\* document type exists; a review that reads its document as pending passes its
\* checks, whatever has been decided about the other documents; its write stores
\* its decision and its reviewer in its own document and leaves every other
\* document as it is; and it then answers with success.  Two concurrent reviews
\* of different documents therefore both succeed and both decisions are stored.
C23_TwoDocumentsInParallel ==
  [][\A r \in Admins :
       /\ (req[r].op = "review" /\ AcquireReturns(r) /\ ~AcquiredTrue(r))
            => <<"review", req[r].b, req[r].d>> \in lock
       /\ ReadsPendingDocument(r) => req'[r].pc = "wbooking"
       /\ (req[r].op = "review" /\ req[r].pc = "wbooking" /\ req'[r].pc # "wbooking")
            => /\ req'[r].pc = "publish"
               /\ booking'[req[r].b].documents[req[r].d]
                    = [status |-> req[r].st, reviewedBy |-> r]
               /\ \A d \in DocTypes \ {req[r].d} :
                    booking'[req[r].b].documents[d] = booking[req[r].b].documents[d]
       /\ (req[r].op = "review" /\ req[r].pc = "publish" /\ req'[r].pc # "publish")
            => req'[r].resp = "ok"]_vars

\* two admins have reviewed the two documents of a booking side by side, one
\* approving and one rejecting: both were answered with success and both
\* decisions are stored
C23_Witness ==
  \E r1, r2 \in Admins :
    /\ RacedOnTwoDocuments(r1, r2)
    /\ req[r1].st = "approved" /\ req[r2].st = "rejected"
    /\ req[r1].resp = "ok" /\ req[r2].resp = "ok"
    /\ booking[req[r1].b].documents[req[r1].d] = [status |-> "approved", reviewedBy |-> r1]
    /\ booking[req[r2].b].documents[req[r2].d] = [status |-> "rejected", reviewedBy |-> r2]

\* the $geoNear of request r returns partner p
SelectsPartner(r, p) == AssignGeoNear(r) /\ req'[r].pc = "wbooking" /\ req'[r].sel = p

\* C24: the partner an assign selects is determined by the bookings and the
\* partners it runs on: from one state the selection cannot return two different
\* partners, also when several eligible partners lie at the same distance.
C24_Deterministic ==
  \A r \in Admins : \A p1, p2 \in Partners :
    (ENABLED SelectsPartner(r, p1) /\ ENABLED SelectsPartner(r, p2)) => p1 = p2

\* the ways in which an assign fails that the caller is to tell apart
AssignFailures == {"conflict", "invalid_state", "no_partner"}

\* C25: two assign requests that failed for different reasons among lock
\* contention, invalid booking state and no partner available were answered with
\* different kinds of error, that is with different HTTP statuses.
C25_FailuresDifferInKind ==
  \A r1, r2 \in Admins :
    (/\ req[r1].op = "assign" /\ req[r1].pc = "done" /\ req[r1].resp \in AssignFailures
     /\ req[r2].op = "assign" /\ req[r2].pc = "done" /\ req[r2].resp \in AssignFailures
     /\ req[r1].resp # req[r2].resp)
      => HttpStatus(req[r1].resp) # HttpStatus(req[r2].resp)

\* no assign request is between its entry and its answer
NoAssignInProgress == \A r \in Admins : ~(req[r].op = "assign" /\ InFlight(req[r]))

\* C26: whenever no assign is in progress, the partner that a booking names as
\* its partnerId is busy and has that booking as its currentBookingId.
C26_NamedPartnerIsBusy ==
  NoAssignInProgress =>
    \A b \in Bookings :
      booking[b].partnerId # NoId
        => /\ partner[booking[b].partnerId].status = "busy"
           /\ partner[booking[b].partnerId].currentBookingId = b

(***************************************************************************)
(* The claims about retries, the order of review and assignment, waiting   *)
(* and the owner of a lock                                                 *)
(***************************************************************************)
\* check j of the log is a retry of the subject of the denied check i, made once
\* the reset interval has passed since the denial, with nothing but denied
\* checks of that subject in between
RetryAfterReset(i, j) ==
  /\ i < j
  /\ rlLog[j].key = rlLog[i].key
  /\ ~rlLog[i].allowed
  /\ rlLog[j].t >= rlLog[i].t + WindowMs(rlWindow)
  /\ \A k \in (i + 1)..(j - 1) : rlLog[k].key = rlLog[i].key => ~rlLog[k].allowed

\* C27: a subject that was denied is admitted when it retries after the reported
\* reset interval, rlWindow seconds, counted from the denial, whatever checks of
\* its own were denied in between; stated for the behaviours in which Redis
\* answers every check without delay.
C27_AdmittedAfterReset ==
  Timely =>
    \A i, j \in 1..Len(rlLog) : RetryAfterReset(i, j) => rlLog[j].allowed

\* the assign request r reads, in this step, a booking without a partner of which
\* a document has been reviewed
ReadsReviewedUnassigned(r) ==
  /\ req[r].op = "assign"
  /\ req[r].pc = "read"
  /\ req'[r].pc # "read"
  /\ req[r].b \in Bookings
  /\ booking[req[r].b].partnerId = NoId
  /\ booking[req[r].b].status = "documents_under_review"

\* C28: a booking that has no partner can still be assigned one after one of its
\* documents has been reviewed: the assign passes its check of the status and
\* goes on to look for a partner.
C28_AssignableAfterReview ==
  [][\A r \in Admins : ReadsReviewedUnassigned(r) => req'[r].pc = "geo"]_vars

\* C29: no request waits for another: a request whose acquireLock answers false
\* is answered with the conflict in that very step, a step sets at most one key
\* and it is the key of the request that takes the step, a request in flight can
\* always take its next step whatever the other requests do, and every request
\* that was issued is answered, with a success or with a failure.
C29_NoWaiting ==
  /\ [][\A r \in Admins :
          (AcquireReturns(r) /\ ~AcquiredTrue(r))
            => (req'[r].pc = "done" /\ req'[r].resp = "conflict")]_vars
  /\ [][\A key \in lock' \ lock :
          /\ lock' = lock \cup {key}
          /\ \E r \in Admins : AcquireReturns(r) /\ LockKey(req[r]) = key]_vars
  /\ [](\A r \in Admins : InFlight(req[r]) => ENABLED HandlerStep(r))
  /\ \A r \in Admins : InFlight(req[r]) ~> (req[r].pc = "done" /\ req[r].resp # "none")

\* a request was answered with the conflict while the request that holds its key
\* is still running
C29_Witness ==
  \E r1, r2 \in Admins :
    /\ req[r1].pc = "done" /\ req[r1].resp = "conflict"
    /\ InCriticalSection(r2)
    /\ req[r2].pc # "read"
    /\ LockKey(req[r2]) = LockKey(req[r1])

\* the release of request r runs in this step
Releases(r) == req[r].pc = "release" /\ req'[r].pc = "done"

\* C30: the release of a request removes no key but one that this request itself
\* has set: a key that another request has set since, after the lease of the
\* releasing request ran out, stays in place.
C30_ReleasesOwnKeyOnly ==
  [][\A r \in Admins :
       Releases(r) => \A o \in owner : o[2] # r => o[1] \in lock']_vars

(***************************************************************************)
(* The claims about denied checks, the outcome of reviews and confirms,    *)
(* concurrent pings, outages of Redis and unknown partners                 *)
(***************************************************************************)
\* the rate-limit check of GPS request g is run by Redis in this step and denied
Denied(g) == ping[g].pc = "exec" /\ ping'[g].resp = "rate_limited"

\* C31: a check that is denied records no timestamp: it leaves in the window of
\* its subject the members that were there, less the expired ones, so that denied
\* checks do not count against later admissions.
C31_DeniedRecordsNothing ==
  [][\A g \in Devices :
       Denied(g) =>
         window'[GPS_UPDATE(ping[g].id)]
           = Trimmed(window[GPS_UPDATE(ping[g].id)], ping[g].t - WindowMs(rlWindow))]_vars

\* the decisions of a reviewer
Decisions == {"approved", "rejected"}

\* C32: the step that decides the success of a review leaves the named document
\* approved or rejected, never pending, with its reviewer recorded; a review whose
\* decision is neither approved nor rejected does not get past the validation:
\* it is refused and no request carrying such a decision is ever in flight.
C32_ReviewDecides ==
  /\ [](\A r \in Admins :
          (req[r].op = "review" /\ InFlight(req[r])) => req[r].st \in Decisions)
  /\ [][\A r \in Admins :
          (SucceedsNow(r) /\ req[r].op = "review") =>
            /\ booking'[req[r].b].documents[req[r].d].status \in Decisions
            /\ booking'[req[r].b].documents[req[r].d].reviewedBy # NoId]_vars

\* the review request r makes its write in this step
ReviewWrites(r) == req[r].op = "review" /\ req[r].pc = "wbooking" /\ req'[r].pc # "wbooking"

\* C33: the write of a review sets the status of the booking to
\* documents_under_review, whatever the status was and whichever document and
\* decision the review carries; a review reaches its success only through this
\* write, and a review that reads a pending document of a booking in status
\* pending, partner_assigned or documents_under_review goes on to the write.
C33_ForcedUnderReview ==
  [][\A r \in Admins :
       /\ ReviewWrites(r) =>
            /\ booking'[req[r].b].status = "documents_under_review"
            /\ req'[r].pc = "publish"
       /\ (req[r].op = "review" /\ req'[r].pc = "publish" /\ req[r].pc # "publish")
            => ReviewWrites(r)
       /\ (req[r].op = "review" /\ SucceedsNow(r)) => req[r].pc = "publish"
       /\ (/\ req[r].op = "review" /\ req[r].pc = "read" /\ req'[r].pc # "read"
           /\ req[r].b \in Bookings /\ req[r].d \in DocTypes
           /\ booking[req[r].b].status
                \in {"pending", "partner_assigned", "documents_under_review"}
           /\ booking[req[r].b].documents[req[r].d].status = "pending")
            => req'[r].pc = "wbooking"]_vars

\* two reviews have succeeded, one approving and one rejecting: the first document
\* to be reviewed of booking b1, which had its partner, and the first of booking
\* b2, which was pending; both bookings are under review
C33_Witness ==
  \E r1, r2 \in Admins :
    /\ req[r1].op = "review" /\ req[r1].pc = "done" /\ req[r1].resp = "ok"
    /\ req[r2].op = "review" /\ req[r2].pc = "done" /\ req[r2].resp = "ok"
    /\ req[r1].b = "b1" /\ req[r2].b = "b2"
    /\ req[r1].st = "approved" /\ req[r2].st = "rejected"
    /\ booking["b1"].partnerId # NoId /\ booking["b2"].partnerId = NoId
    /\ \A d \in DocTypes \ {req[r1].d} : booking["b1"].documents[d].status = "pending"
    /\ \A d \in DocTypes \ {req[r2].d} : booking["b2"].documents[d].status = "pending"
    /\ booking["b1"].status = "documents_under_review"
    /\ booking["b2"].status = "documents_under_review"

\* the confirm requests for booking b that were answered with success
ConfirmedBy(b) ==
  {r \in Admins : req[r].op = "confirm" /\ req[r].b = b /\ req[r].pc = "done" /\ req[r].resp = "ok"}

\* the bookings that are confirmed with partner p
ConfirmedWith(p) ==
  {b \in Bookings : booking[b].status = "confirmed" /\ booking[b].partnerId = p}

\* C34: of the confirm requests for one booking at most one succeeds, however they
\* interleave, and the delivery counter of a partner is incremented once for
\* each booking confirmed with it: it never exceeds the number of these bookings.
C34_ConfirmedOnce ==
  /\ \A b \in Bookings : Cardinality(ConfirmedBy(b)) <= 1
  /\ \A p \in Partners : partner[p].totalDeliveries <= Cardinality(ConfirmedWith(p))

\* the GPS requests that have stored their ping and not yet published it
Unpublished == {g \in Devices : ping[g].pc = "publish"}

\* C35: pings of one partner that run side by side are all kept: the step that
\* stores a ping appends its position behind the entries there were and makes it
\* the partner's location, no other step touches the history or the location, so
\* that the history holds one entry for each ping stored (here below the cap of
\* 100 entries) and the location is the position of the last entry, whenever
\* pings have been stored and in particular once all have finished.
C35_PingsAllKept ==
  /\ [](\A p \in Partners :
          partner[p].gpsHistory # <<>>
            => partner[p].location = partner[p].gpsHistory[Len(partner[p].gpsHistory)])
  /\ [](Len(partner["p1"].gpsHistory)
          = events["partner:gps:update"] + Cardinality(Unpublished))
  /\ [][/\ \A g \in Devices :
             Stores(g) =>
               LET old == partner[ping[g].id].gpsHistory
                   new == partner'[ping[g].id].gpsHistory
               IN /\ Len(new) = Len(old) + 1
                  /\ new[Len(new)] = [lon |-> LonMumbai, lat |-> ping[g].lat]
                  /\ \A i \in 1..Len(old) : new[i] = old[i]
                  /\ partner'[ping[g].id].location = new[Len(new)]
        /\ \A p \in Partners :
             (partner'[p] # partner[p]) => \E g \in Devices : Stores(g) /\ ping[g].id = p]_vars

\* two pings of partner p1 from different places ran side by side and have both
\* been answered with success: the history holds both and the location is the
\* place of the one stored last
C35_Witness ==
  /\ \A g \in Devices : ping[g].pc = "done" /\ ping[g].id = "p1" /\ ping[g].resp = "ok"
  /\ Len(partner["p1"].gpsHistory) = 2
  /\ partner["p1"].gpsHistory[1].lat = 19080
  /\ partner["p1"].gpsHistory[2].lat = 19076
  /\ partner["p1"].location.lat = 19076

C37_ConfirmedIsFinal ==
  /\ [](\A b \in Bookings :
          booking[b].status = "confirmed"
            => (booking[b].partnerId # NoId /\ AllApproved(booking[b])))
  /\ [][\A b \in Bookings :
          booking[b].status = "confirmed"
            => /\ booking'[b].status = "confirmed"
               /\ booking'[b].documents = booking[b].documents]_vars

\* the assign that chose partner p has written the partner: p is busy on a booking
OnBooking(p) == partner[p].status = "busy" /\ partner[p].currentBookingId \in Bookings

\* the confirm request r updates the partner of its booking in this step
ConfirmUpdatesPartner(r) ==
  req[r].op = "confirm" /\ req[r].pc = "wpartner" /\ req'[r].pc # "wpartner"

UnknownPartnerSteps(g) ==
  /\ PingInFlight(ping[g])
  /\ ping[g].id \notin Partners
  /\ ping'[g] # ping[g]

\* C39: a ping for a well-formed id of no partner changes nothing: none of its
\* steps writes a partner, publishes an event or adds to the rate-limit window of
\* that id, and it is answered with not found.
C39_UnknownPartnerLeavesNoTrace ==
  [][\A g \in Devices :
       UnknownPartnerSteps(g) =>
         /\ UNCHANGED <<partner, events>>
         /\ window'[GPS_UPDATE(ping[g].id)] = window[GPS_UPDATE(ping[g].id)]
         /\ ping'[g].pc = "done" => ping'[g].resp = "not_found"]_vars

====
